---- MODULE Spec2Model ----
(***************************************************************************)
(* The Ollama inference adapter of llama-stack                             *)
(* (llama_stack/providers/remote/inference/ollama/ollama.py) as a state    *)
(* machine.  One host-level call is in flight at a time; a streaming call  *)
(* returns an async generator whose steps are driven by the consumer.      *)
(* The daemon is the environment: every reply, chunk and failure it can    *)
(* produce is a nondeterministic choice.                                   *)
(***************************************************************************)
EXTENDS Integers, Sequences, FiniteSets, TLC

\* ---------------------------------------------------------------- bounds
\* longest reply stream the daemon produces for one streaming call
MaxChunks == 2
\* longest list of running models the daemon reports from ps
MaxModels == 2

\* Python's None / an absent dictionary key
None == "None"

\* ------------------------------------------------------- static mapping
OLLAMA_SUPPORTED_MODELS ==
    ("Llama3.1-8B-Instruct" :> "llama3.1:8b-instruct-fp16") @@
    ("Llama3.1-70B-Instruct" :> "llama3.1:70b-instruct-fp16") @@
    ("Llama3.2-1B-Instruct" :> "llama3.2:1b-instruct-fp16") @@
    ("Llama3.2-3B-Instruct" :> "llama3.2:3b-instruct-fp16") @@
    ("Llama-Guard-3-8B" :> "llama-guard3:8b") @@
    ("Llama-Guard-3-1B" :> "llama-guard3:1b") @@
    ("Llama3.2-11B-Vision-Instruct" :> "x/llama3.2-vision:11b-instruct-fp16")

Range(f) == {f[k] : k \in DOMAIN f}

\* ------------------------------------------------------------- inputs
\* identifiers a caller passes to register_model / embeddings: every key of
\* the mapping, one identifier the mapping lacks, and one daemon tag used
\* as if it were a host identifier
RegisterIdentifiers ==
    DOMAIN OLLAMA_SUPPORTED_MODELS \cup
        {"Llama3.1-405B-Instruct", "llama3.1:8b-instruct-fp16"}

\* identifiers a caller passes to completion / chat_completion
RequestModels ==
    {"Llama3.1-8B-Instruct", "Llama3.2-11B-Vision-Instruct",
     "Llama3.1-405B-Instruct", "llama3.1:8b-instruct-fp16"}

\* tags the daemon may report from ps: every mapped tag, a tag the adapter
\* does not know, and a host identifier reported as a tag
DaemonTags ==
    Range(OLLAMA_SUPPORTED_MODELS) \cup {"mistral:7b", "Llama3.1-8B-Instruct"}

Urls == {"http://localhost:11434"}
Texts == {"a", "b"}
Reasons == {"stop", "length"}

\* error raised by the daemon client: connection refused while the daemon is
\* down, any other failure (bad status, read error) while it is up
DaemonErrors(up) == IF up THEN {"ResponseError"} ELSE {"ConnectError"}
\* outcome of awaiting one daemon operation: None is success
DaemonOutcomes(up) == IF up THEN {None, "ResponseError"} ELSE {"ConnectError"}

\* one element of the daemon's reply to generate (key "response") or to
\* chat (key "message"); done_reason is read only when done is set
DaemonChunks(rpc) ==
    LET shapes == { [message |-> IF rpc = "chat" THEN t ELSE None,
                     response |-> IF rpc = "chat" THEN None ELSE t,
                     done |-> d, done_reason |-> r] :
                      t \in Texts, d \in BOOLEAN, r \in Reasons \cup {None} }
    IN  { c \in shapes : c.done => c.done_reason # None }

SeqsUpTo(S, n) == UNION { [1..k -> S] : k \in 0..n }

\* res["models"] of a ps reply
PsReplies == SeqsUpTo([model : DaemonTags], MaxModels)

VARIABLES
    supported_models,   \* the module-level dict OLLAMA_SUPPORTED_MODELS
    url,                \* self.url
    reachable,          \* environment: whether the daemon accepts connections
    last_register,      \* history: identifier last passed to register_model
    pc,                 \* position of the call in flight
    request,            \* the call in flight: op, model, stream flag, media
    params,             \* result of _get_params held by a streaming call
    rpcs,               \* daemon operations issued by the call, in order
    res,                \* res["models"] received by list_models
    pulled,             \* daemon replies / chunks received by the call
    handed,             \* intermediate responses handed to post-processing
    error,              \* error the daemon raised during the call, or None
    result,             \* how the call ended: None (not ended), "ok", error
    message,            \* text carried by the error the call raised
    ret                 \* value returned by list_models

vars == <<supported_models, url, reachable, last_register, pc, request,
          params, rpcs, res, pulled, handed, error, result, message, ret>>

NoParams == [model |-> None, keys |-> {}, raw |-> FALSE, stream |-> FALSE]
NoRequest == [op |-> None, model |-> None, stream |-> FALSE, media |-> FALSE]
Request(op, model, stream, media) ==
    [op |-> op, model |-> model, stream |-> stream, media |-> media]
Ps == [rpc |-> "ps", params |-> NoParams]
Rpc(name, p) == [rpc |-> name, params |-> p]

NOT_RUNNING ==
    "Ollama Server is not running, start it using 'ollama serve' in a separate terminal"
NOT_SUPPORTED == "is not supported by Ollama"
NO_MEDIA == "Ollama does not support media for Completion requests"

Init ==
    /\ supported_models = OLLAMA_SUPPORTED_MODELS
    /\ url \in Urls
    /\ reachable \in BOOLEAN
    /\ last_register = None
    /\ pc = "idle"
    /\ request = NoRequest
    /\ params = NoParams
    /\ rpcs = <<>>
    /\ res = <<>>
    /\ pulled = <<>>
    /\ handed = <<>>
    /\ error = None
    /\ result = None
    /\ message = ""
    /\ ret = <<>>

\* a new host-level call; the adapter serves one logical request per call
Begin(req) ==
    /\ pc = "idle"
    /\ request' = req
    /\ UNCHANGED <<reachable, url>>

\* the call ends without having talked to the daemon
Local(outcome, text) ==
    /\ pc' = "done"
    /\ result' = outcome
    /\ message' = text
    /\ error' = None
    /\ params' = NoParams
    /\ rpcs' = <<>>
    /\ res' = <<>>
    /\ pulled' = <<>>
    /\ handed' = <<>>
    /\ ret' = <<>>

\* --------------------------------------------------------- pure helpers
\* register_model's test of the identifier
register_model_raises_by_tag(identifier) ==
    identifier \notin Range(supported_models)

register_model_raises(identifier) ==
    identifier \notin DOMAIN supported_models

\* {v: k for k, v in OLLAMA_SUPPORTED_MODELS.items()}
ollama_to_llama_not_inverted ==
    supported_models

ollama_to_llama ==
    [t \in Range(supported_models) |->
        CHOOSE k \in DOMAIN supported_models : supported_models[k] = t]

Model(identifier, tag) ==
    [identifier |-> identifier, metadata |-> [ollama_model |-> tag]]

\* the loop of list_models over res["models"], from entry i on
RECURSIVE list_models_loop(_, _, _)
list_models_loop(models, i, acc) ==
    IF i > Len(models) THEN acc
    ELSE IF models[i].model \notin DOMAIN ollama_to_llama
         THEN list_models_loop(models, i + 1, acc)
         ELSE list_models_loop(models, i + 1,
                  Append(acc, Model(ollama_to_llama[models[i].model],
                                    models[i].model)))

RECURSIVE list_models_loop_keep(_, _, _)
list_models_loop_keep(models, i, acc) ==
    IF i > Len(models) THEN acc
    ELSE IF models[i].model \notin DOMAIN ollama_to_llama
         THEN list_models_loop_keep(models, i + 1,
                  Append(acc, Model(models[i].model, models[i].model)))
         ELSE list_models_loop_keep(models, i + 1,
                  Append(acc, Model(ollama_to_llama[models[i].model],
                                    models[i].model)))

list_models_ret_keep_unknown(models) ==
    list_models_loop_keep(models, 1, <<>>)

list_models_ret(models) ==
    list_models_loop(models, 1, <<>>)

\* initialize's translation of the probe's outcome
initialize_raises_swallow(e) ==
    IF e = "ConnectError" THEN None ELSE e

initialize_raises(e) ==
    IF e = "ConnectError" THEN "RuntimeError" ELSE e

Raise(kind, text) == [error |-> kind, text |-> text, params |-> NoParams]

\* _get_params without the model lookup failing: .get(model, model)
_get_params_default(req, converted) ==
    LET tag == IF req.model \in DOMAIN supported_models
               THEN supported_models[req.model] ELSE req.model
        prompt == [error |-> None, text |-> "",
                   params |-> [model |-> tag, keys |-> {"raw", "prompt"},
                               raw |-> TRUE, stream |-> req.stream]]
    IN  IF req.op = "chat_completion"
        THEN IF req.media
             THEN IF ~converted THEN Raise("MediaError", "")
                  ELSE [error |-> None, text |-> "",
                        params |-> [model |-> tag, keys |-> {"messages"},
                                    raw |-> FALSE, stream |-> req.stream]]
             ELSE prompt
        ELSE IF req.media THEN Raise("AssertionError", NO_MEDIA)
             ELSE prompt

\* _get_params: the keyword parameters of the daemon operation, or the error
\* raised while building them.  converted: whether every image of the
\* request could be fetched by convert_image_media_to_url
_get_params(req, converted) ==
    LET lookup(keys, raw) ==
            IF req.model \in DOMAIN supported_models
            THEN [error |-> None, text |-> "",
                  params |-> [model |-> supported_models[req.model],
                              keys |-> keys, raw |-> raw,
                              stream |-> req.stream]]
            ELSE Raise("KeyError", req.model)
    IN  IF req.op = "chat_completion"
        THEN IF req.media
             THEN IF ~converted THEN Raise("MediaError", "")
                  ELSE lookup({"messages"}, FALSE)
             ELSE lookup({"raw", "prompt"}, TRUE)
        ELSE IF req.media THEN Raise("AssertionError", NO_MEDIA)
             ELSE lookup({"raw", "prompt"}, TRUE)

\* if "messages" in params: client.chat else client.generate
chat_rpc_always_generate(p) ==
    "generate"

chat_rpc(p) ==
    IF "messages" \in p.keys THEN "chat" ELSE "generate"

OpenAICompatCompletionChoice(finish_reason, text) ==
    [finish_reason |-> finish_reason, text |-> text]

OpenAICompatCompletionResponse(choice) ==
    [choices |-> <<choice>>]

\* the choice built from a generate reply or chunk
completion_choice(chunk) ==
    OpenAICompatCompletionChoice(
        IF chunk.done THEN chunk.done_reason ELSE None, chunk.response)

chat_choice_always_reason(chunk) ==
    OpenAICompatCompletionChoice(
        chunk.done_reason,
        IF chunk.message # None THEN chunk.message ELSE chunk.response)

chat_choice_no_reason(chunk) ==
    OpenAICompatCompletionChoice(
        None,
        IF chunk.message # None THEN chunk.message ELSE chunk.response)

\* the choice built from a chat or generate reply or chunk
chat_choice(chunk) ==
    IF chunk.message # None
    THEN OpenAICompatCompletionChoice(
             IF chunk.done THEN chunk.done_reason ELSE None, chunk.message)
    ELSE OpenAICompatCompletionChoice(
             IF chunk.done THEN chunk.done_reason ELSE None, chunk.response)

\* ------------------------------------------------------------ actions
\* the environment starts or stops the daemon
DaemonToggle ==
    /\ reachable' = ~reachable
    /\ UNCHANGED <<supported_models, url, last_register, pc, request, params,
                   rpcs, res, pulled, handed, error, result, message, ret>>

\* initialize(): await self.client.ps(), a connection error re-raised as
\* RuntimeError
initialize ==
    /\ Begin(Request("initialize", None, FALSE, FALSE))
    /\ \E e \in DaemonOutcomes(reachable) :
          /\ error' = e
          /\ result' = IF initialize_raises(e) = None THEN "ok"
                       ELSE initialize_raises(e)
          /\ message' = IF initialize_raises(e) = "RuntimeError"
                        THEN NOT_RUNNING ELSE ""
    /\ rpcs' = <<Ps>>
    /\ pc' = "done"
    /\ params' = NoParams
    /\ res' = <<>>
    /\ pulled' = <<>>
    /\ handed' = <<>>
    /\ ret' = <<>>
    /\ UNCHANGED <<supported_models, last_register>>

\* shutdown(): pass
shutdown ==
    /\ Begin(Request("shutdown", None, FALSE, FALSE))
    /\ Local("ok", "")
    /\ UNCHANGED <<supported_models, last_register>>

\* register_model(model)
register_model ==
    \E identifier \in RegisterIdentifiers :
        /\ Begin(Request("register_model", identifier, FALSE, FALSE))
        /\ IF register_model_raises(identifier)
           THEN Local("ValueError", NOT_SUPPORTED)
           ELSE Local("ok", "")
        /\ last_register' = identifier
        /\ UNCHANGED supported_models

\* list_models swallowing the daemon's error and returning an empty list
list_models_swallow ==
    /\ Begin(Request("list_models", None, FALSE, FALSE))
    /\ rpcs' = <<Ps>>
    /\ \E e \in DaemonOutcomes(reachable) :
          /\ error' = e
          /\ \E reply \in PsReplies :
                /\ res' = IF e = None THEN reply ELSE <<>>
                /\ ret' = IF e = None THEN list_models_ret(reply) ELSE <<>>
    /\ result' = "ok"
    /\ pc' = "done"
    /\ message' = ""
    /\ params' = NoParams
    /\ pulled' = <<>>
    /\ handed' = <<>>
    /\ UNCHANGED <<supported_models, last_register>>

\* list_models()
list_models ==
    /\ Begin(Request("list_models", None, FALSE, FALSE))
    /\ rpcs' = <<Ps>>
    /\ \E e \in DaemonOutcomes(reachable) :
          /\ error' = e
          /\ result' = IF e = None THEN "ok" ELSE e
          /\ IF e = None
             THEN \E reply \in PsReplies :
                      /\ res' = reply
                      /\ ret' = list_models_ret(reply)
             ELSE res' = <<>> /\ ret' = <<>>
    /\ pc' = "done"
    /\ message' = ""
    /\ params' = NoParams
    /\ pulled' = <<>>
    /\ handed' = <<>>
    /\ UNCHANGED <<supported_models, last_register>>

\* embeddings answering with an empty result instead of raising
embeddings_returns ==
    \E model \in RegisterIdentifiers, media \in BOOLEAN :
        /\ Begin(Request("embeddings", model, FALSE, media))
        /\ Local("ok", "")
        /\ UNCHANGED <<supported_models, last_register>>

\* embeddings(model, contents): raise NotImplementedError()
embeddings ==
    \E model \in RegisterIdentifiers, media \in BOOLEAN :
        /\ Begin(Request("embeddings", model, FALSE, media))
        /\ Local("NotImplementedError", "")
        /\ UNCHANGED <<supported_models, last_register>>

\* completion always calls client.generate
generate_rpc(p) == "generate"

\* the daemon operation a call of kind op uses for params p
client_rpc(op, p) ==
    IF op = "chat_completion" THEN chat_rpc(p) ELSE generate_rpc(p)

\* the choice a call of kind op builds from a daemon reply or chunk
choice_of(op, chunk) ==
    IF op = "chat_completion" THEN chat_choice(chunk)
    ELSE completion_choice(chunk)

\* the body shared by _nonstream_completion and _nonstream_chat_completion:
\* _get_params, one daemon operation, one choice, one response
Nonstream(req) ==
    \E converted \in BOOLEAN :
        LET gp == _get_params(req, converted)
        IN  IF gp.error # None
            THEN Local(gp.error, gp.text)
            ELSE /\ rpcs' = <<Rpc(client_rpc(req.op, gp.params), gp.params)>>
                 /\ \E e \in DaemonOutcomes(reachable) :
                       /\ error' = e
                       /\ result' = IF e = None THEN "ok" ELSE e
                       /\ IF e = None
                          THEN \E r \in DaemonChunks(client_rpc(req.op, gp.params)) :
                                  /\ pulled' = <<r>>
                                  /\ handed' =
                                       <<OpenAICompatCompletionResponse(choice_of(req.op, r))>>
                          ELSE pulled' = <<>> /\ handed' = <<>>
                 /\ pc' = "done"
                 /\ message' = ""
                 /\ params' = NoParams
                 /\ res' = <<>>
                 /\ ret' = <<>>

_nonstream_completion(req) ==
    Nonstream(req)

_nonstream_chat_completion(req) ==
    Nonstream(req)

\* the call returns an async generator; nothing of its body has run
ReturnGenerator ==
    /\ pc' = "gen"
    /\ result' = None
    /\ message' = ""
    /\ error' = None
    /\ params' = NoParams
    /\ rpcs' = <<>>
    /\ res' = <<>>
    /\ pulled' = <<>>
    /\ handed' = <<>>
    /\ ret' = <<>>

\* completion(model, content, ..., stream)
completion ==
    \E model \in RequestModels, media \in BOOLEAN, stream \in BOOLEAN :
        /\ Begin(Request("completion", model, stream, media))
        /\ IF stream
           THEN ReturnGenerator
           ELSE _nonstream_completion(Request("completion", model, stream, media))
        /\ UNCHANGED <<supported_models, last_register>>

\* chat_completion(model, messages, ..., stream)
chat_completion ==
    \E model \in RequestModels, media \in BOOLEAN, stream \in BOOLEAN :
        /\ Begin(Request("chat_completion", model, stream, media))
        /\ IF stream
           THEN ReturnGenerator
           ELSE _nonstream_chat_completion(
                    Request("chat_completion", model, stream, media))
        /\ UNCHANGED <<supported_models, last_register>>

\* first resumption of the generator: params = await self._get_params(request)
StreamParams(op) ==
    /\ pc = "gen"
    /\ request.op = op
    /\ \E converted \in BOOLEAN :
          LET gp == _get_params(request, converted)
          IN  IF gp.error # None
              THEN /\ pc' = "done"
                   /\ result' = gp.error
                   /\ message' = gp.text
                   /\ params' = NoParams
              ELSE /\ pc' = "params"
                   /\ params' = gp.params
                   /\ UNCHANGED <<result, message>>
    /\ UNCHANGED <<supported_models, url, reachable, last_register, request,
                   rpcs, res, pulled, handed, error, ret>>

\* first resumption of the inner generator: s = await self.client.<rpc>(**params)
StreamRpc(op) ==
    /\ pc = "params"
    /\ request.op = op
    /\ rpcs' = Append(rpcs, Rpc(client_rpc(op, params), params))
    /\ \E e \in DaemonOutcomes(reachable) :
          /\ error' = e
          /\ IF e = None
             THEN pc' = "stream" /\ UNCHANGED result
             ELSE pc' = "done" /\ result' = e
    /\ UNCHANGED <<supported_models, url, reachable, last_register, request,
                   params, res, pulled, handed, message, ret>>

\* one turn of "async for chunk in s": the daemon's next chunk is reshaped
\* and yielded, or the stream ends, or the daemon fails
StreamChunk(op) ==
    /\ pc = "stream"
    /\ request.op = op
    /\ \/ /\ Len(pulled) < MaxChunks
          /\ \E chunk \in DaemonChunks(rpcs[1].rpc) :
                /\ pulled' = Append(pulled, chunk)
                /\ handed' = Append(handed,
                                OpenAICompatCompletionResponse(choice_of(op, chunk)))
          /\ UNCHANGED <<pc, result, error>>
       \/ /\ pc' = "done"
          /\ result' = "ok"
          /\ UNCHANGED <<pulled, handed, error>>
       \/ \E e \in DaemonErrors(reachable) :
             /\ pc' = "done"
             /\ result' = e
             /\ error' = e
             /\ UNCHANGED <<pulled, handed>>
    /\ UNCHANGED <<supported_models, url, reachable, last_register, request,
                   params, rpcs, res, message, ret>>

_stream_completion_params == StreamParams("completion")

_stream_completion_generate == StreamRpc("completion")

_stream_completion_chunk == StreamChunk("completion")

_stream_chat_completion_params == StreamParams("chat_completion")

_stream_chat_completion_rpc == StreamRpc("chat_completion")

_stream_chat_completion_chunk == StreamChunk("chat_completion")

\* the caller takes the call's outcome, or drops the generator it was given:
\* the request and response objects of the call cease to exist
Return ==
    /\ pc \in {"done", "gen", "params", "stream"}
    /\ pc' = "idle"
    /\ request' = NoRequest
    /\ params' = NoParams
    /\ rpcs' = <<>>
    /\ res' = <<>>
    /\ pulled' = <<>>
    /\ handed' = <<>>
    /\ error' = None
    /\ result' = None
    /\ message' = ""
    /\ ret' = <<>>
    /\ UNCHANGED <<supported_models, url, reachable, last_register>>

Next ==
    \/ DaemonToggle
    \/ initialize
    \/ shutdown
    \/ register_model
    \/ list_models
    \/ embeddings
    \/ completion
    \/ chat_completion
    \/ _stream_completion_params
    \/ _stream_completion_generate
    \/ _stream_completion_chunk
    \/ _stream_chat_completion_params
    \/ _stream_chat_completion_rpc
    \/ _stream_chat_completion_chunk
    \/ Return

Spec == Init /\ [][Next]_vars

\* ---------------------------------------------------------- properties
Inference == {"completion", "chat_completion"}
Last(s) == s[Len(s)]
FinishReason(response) == response.choices[1].finish_reason
KnownTag(r) == r.model \in Range(OLLAMA_SUPPORTED_MODELS)
\* the text a daemon chunk carries, under whichever key it has
ChunkText(chunk) ==
    IF chunk.message # None THEN chunk.message ELSE chunk.response

\* C1: register_model fails with a value error exactly when the identifier is
\* not a key of the static mapping and succeeds otherwise; either way it
\* issues no daemon call and leaves the mapping and the adapter unchanged.
C1_RegisterModel ==
    [][(pc = "idle" /\ request'.op = "register_model") =>
          /\ pc' = "done"
          /\ result' = IF request'.model \in DOMAIN OLLAMA_SUPPORTED_MODELS
                       THEN "ok" ELSE "ValueError"
          /\ rpcs' = <<>>
          /\ supported_models' = supported_models
          /\ supported_models' = OLLAMA_SUPPORTED_MODELS
          /\ url' = url]_vars

\* register_model was refused for a daemon tag passed as an identifier
C1_Witness ==
    /\ request.op = "register_model"
    /\ request.model \in Range(OLLAMA_SUPPORTED_MODELS)
    /\ result = "ValueError"
    /\ rpcs = <<>>

\* C2: whatever list the daemon reports from ps, every identifier list_models
\* returns is a key of the static mapping.
C2_ListModelsOnlyKeys ==
    request.op = "list_models" =>
        \A i \in 1..Len(ret) :
            ret[i].identifier \in DOMAIN OLLAMA_SUPPORTED_MODELS

\* the daemon reported a host identifier as a tag, then a mapped tag
C2_Witness ==
    /\ request.op = "list_models"
    /\ Len(res) = 2
    /\ res[1].model \in DOMAIN OLLAMA_SUPPORTED_MODELS
    /\ KnownTag(res[2])
    /\ Len(ret) = 1

\* C3: when ps answers, list_models succeeds even if unknown tags are
\* reported, and returns the reported sequence restricted to mapped tags, in
\* the daemon's order, each as the identifier whose mapped tag it is.
C3_ListModelsFilters ==
    (request.op = "list_models" /\ error = None) =>
        /\ result = "ok"
        /\ LET known == SelectSeq(res, KnownTag)
           IN  /\ Len(ret) = Len(known)
               /\ \A i \in 1..Len(ret) :
                     /\ i <= Len(known)
                     /\ ret[i].metadata.ollama_model = known[i].model
                     /\ ret[i].identifier \in DOMAIN OLLAMA_SUPPORTED_MODELS
                     /\ OLLAMA_SUPPORTED_MODELS[ret[i].identifier] = known[i].model

\* an unknown tag was skipped and the mapped tag after it was returned
C3_Witness ==
    /\ request.op = "list_models"
    /\ result = "ok"
    /\ Len(res) = 2
    /\ res[1].model = "mistral:7b"
    /\ res[2].model = "llama-guard3:1b"
    /\ ret = <<Model("Llama-Guard-3-1B", "llama-guard3:1b")>>

\* C4: embeddings always fails as unimplemented, for every model and input,
\* whether or not the daemon is reachable, and issues no daemon call.
C4_EmbeddingsUnimplemented ==
    request.op = "embeddings" =>
        /\ pc = "done"
        /\ result = "NotImplementedError"
        /\ rpcs = <<>>

\* embeddings failed for a supported model while the daemon was up
C4_Witness ==
    /\ request.op = "embeddings"
    /\ request.model \in DOMAIN OLLAMA_SUPPORTED_MODELS
    /\ reachable
    /\ result = "NotImplementedError"

C6_Initialize ==
    request.op = "initialize" =>
        /\ pc = "done"
        /\ rpcs = <<Ps>>
        /\ error = "ConnectError" => (result = "RuntimeError" /\ message = NOT_RUNNING)
        /\ error = None => result = "ok"
        /\ error # None => result # "ok"

\* the probe found the daemon down
C6_Witness ==
    /\ request.op = "initialize"
    /\ error = "ConnectError"
    /\ result = "RuntimeError"

\* C7: in completion, chat_completion and list_models an error of the daemon
\* call, at the call or while iterating the stream, reaches the caller
\* unchanged; at most one daemon operation is issued per call, it is never
\* re-issued, and nothing is produced after the error.
C7_ErrorsPropagate ==
    /\ [](request.op \in Inference \cup {"list_models"} =>
            /\ Len(rpcs) <= 1
            /\ error # None =>
                  /\ pc = "done"
                  /\ result = error
                  /\ Len(rpcs) = 1
                  /\ ret = <<>>
                  /\ ~request.stream => handed = <<>>)
    /\ [][(error # None /\ pc' # "idle") =>
             /\ rpcs' = rpcs
             /\ handed' = handed
             /\ result' = result]_vars

\* the daemon failed in the middle of a chat stream
C7_Witness ==
    /\ request.op = "chat_completion"
    /\ request.stream
    /\ error = "ResponseError"
    /\ result = "ResponseError"
    /\ Len(handed) = 1

\* C8: a streaming call issues no daemon operation before its generator is
\* iterated, and hands on the k-th chunk, built from the k-th daemon chunk
\* alone, before pulling the next; the finish reason is the chunk's
\* done_reason when done is set and absent otherwise.
C8_StreamOneToOne ==
    (request.op \in Inference /\ request.stream) =>
        /\ pc = "gen" => rpcs = <<>>
        /\ Len(handed) = Len(pulled)
        /\ \A k \in 1..Len(handed) :
              /\ k <= Len(pulled)
              /\ Len(handed[k].choices) = 1
              /\ handed[k].choices[1].text = ChunkText(pulled[k])
              /\ FinishReason(handed[k]) =
                    IF pulled[k].done THEN pulled[k].done_reason ELSE None

\* a chat stream whose first chunk names a reason without being done
C8_Witness ==
    /\ request.op = "chat_completion"
    /\ request.stream
    /\ Len(pulled) = 2
    /\ ~pulled[1].done
    /\ pulled[1].done_reason = "length"
    /\ pulled[2].done
    /\ FinishReason(handed[1]) = None
    /\ FinishReason(handed[2]) = pulled[2].done_reason

\* C9: completion and chat_completion for an identifier outside the static
\* mapping end in an error without any daemon operation, registered before
\* or not; every generate or chat operation issued carries the tag the
\* mapping gives the request's identifier.
C9_UnknownModelNoRpc ==
    request.op \in Inference =>
        /\ request.model \notin DOMAIN OLLAMA_SUPPORTED_MODELS =>
              /\ rpcs = <<>>
              /\ handed = <<>>
              /\ pc \in {"gen", "done"}
              /\ pc = "done" => result \in {"KeyError", "AssertionError", "MediaError"}
        /\ \A i \in 1..Len(rpcs) :
              /\ rpcs[i].rpc \in {"generate", "chat"}
              /\ request.model \in DOMAIN OLLAMA_SUPPORTED_MODELS
              /\ rpcs[i].params.model = OLLAMA_SUPPORTED_MODELS[request.model]
              /\ rpcs[i].params.model \in Range(OLLAMA_SUPPORTED_MODELS)

\* a streaming completion for an identifier register_model had just refused
C9_Witness ==
    /\ request.op = "completion"
    /\ request.stream
    /\ request.model \notin DOMAIN OLLAMA_SUPPORTED_MODELS
    /\ last_register = request.model
    /\ pc = "done"
    /\ result = "KeyError"

\* C10: a chat request with media goes to chat with messages and without
\* prompt or raw; every request without media goes to generate with a prompt
\* and raw set and without messages; a completion request with media fails
\* its assertion without a daemon operation; stream is the caller's flag.
C10_RpcSelection ==
    request.op \in Inference =>
        /\ \A i \in 1..Len(rpcs) :
              /\ rpcs[i].params.stream = request.stream
              /\ IF request.op = "chat_completion" /\ request.media
                 THEN /\ rpcs[i].rpc = "chat"
                      /\ rpcs[i].params.keys = {"messages"}
                 ELSE /\ rpcs[i].rpc = "generate"
                      /\ rpcs[i].params.keys = {"prompt", "raw"}
                      /\ rpcs[i].params.raw
        /\ (request.op = "completion" /\ request.media) =>
              /\ rpcs = <<>>
              /\ pc \in {"gen", "done"}
              /\ pc = "done" => (result = "AssertionError" /\ message = NO_MEDIA)
        /\ (pc = "stream" \/ result = "ok") => Len(rpcs) = 1

\* a streaming chat request with media reached the chat operation
C10_Witness ==
    /\ request.op = "chat_completion"
    /\ request.media
    /\ request.stream
    /\ Len(rpcs) = 1
    /\ rpcs[1].rpc = "chat"
    /\ rpcs[1].params.stream

====
